---- MODULE Spec2Model ----
(***************************************************************************)
(* Status-page backend (src/main.py): two in-memory dictionaries,          *)
(* services_db and incidents_db, and the FastAPI handlers over them.       *)
(* Every handler is an `async def` without an await, so it runs to         *)
(* completion on the event loop: one action per handler.                   *)
(***************************************************************************)
EXTENDS Integers, Sequences, FiniteSets, TLC

(***************************************************************************)
(* Bounds of the model.                                                    *)
(***************************************************************************)
\* incidents_db holds at most this many incidents (the seeded one included)
MaxIncidents == 3
\* ... and at most this many where every service request is sent
MaxRegistryIncidents == 2
\* at most this many requests arrive where requests wait for one another
MaxTasks == 3
\* the wall clock is read as one of the ticks 0..MaxTime
MaxTime == 1

(***************************************************************************)
(* Request inputs.                                                         *)
(***************************************************************************)
\* Optional[str] = None  (ServiceBase.description)
None == "None"
Names == {"Website", "API Service", "Database"}
Descriptions == {None}
\* ServiceBase.status is any string
ServiceStatuses == {"maintenance"}
\* IncidentBase.status is any string; "monitoring" is outside the policy
IncidentStatuses == {"investigating", "identified", "resolved", "monitoring"}
Titles == {"Outage"}
IncidentDescriptions == {"details"}

VARIABLES
    services_db,   \* dict id -> service, as the sequence of its values in insertion order
    incidents_db,  \* dict id -> incident, as the sequence of its values in insertion order
    clock,         \* the last value datetime.now() returned, in ticks
    uuid,          \* number of identifiers uuid.uuid4() has generated
    handler,       \* the handler that served the last request
    resp,          \* its response: status code and body
    tasks          \* the requests accepted while others wait on the event loop,
                   \* in order of arrival, each with its handler's position

vars == <<services_db, incidents_db, clock, uuid, handler, resp, tasks>>

(***************************************************************************)
(* datetime.now().isoformat(): "YYYY-MM-DDTHH:MM:SS" when the microsecond  *)
(* is 0 and "YYYY-MM-DDTHH:MM:SS.ffffff" otherwise.  The clock ticks in    *)
(* half seconds, and a timestamp string is modelled as the sequence of its *)
(* fixed-width fields: <<seconds>> or <<seconds, fraction>>.               *)
(***************************************************************************)
isoformat(t) ==
    IF t % 2 = 0 THEN <<t \div 2>> ELSE <<t \div 2, t % 2>>

\* Python's str < str on two timestamp strings: lexicographic, a proper
\* prefix is smaller.
RECURSIVE StrLess(_, _)
StrLess(a, b) ==
    IF b = <<>> THEN FALSE
    ELSE IF a = <<>> THEN TRUE
    ELSE IF Head(a) # Head(b) THEN Head(a) < Head(b)
    ELSE StrLess(Tail(a), Tail(b))

(***************************************************************************)
(* dict operations on the insertion-ordered sequence of values.            *)
(***************************************************************************)
\* the membership test looking into the incident dictionary
Has_IncidentsDb(db, id) == \E i \in 1..Len(incidents_db) : incidents_db[i].id = id

\* key in db
Has(db, id) == \E i \in 1..Len(db) : db[i].id = id

\* db[key]
Lookup(db, id) == db[CHOOSE i \in 1..Len(db) : db[i].id = id]

\* a store that appends a value also under a key it already holds
Put_Append(db, id, value) == Append(db, value)

\* db[key] = value: replaces in place, or appends a new key
Put(db, id, value) ==
    IF Has(db, id)
    THEN [i \in 1..Len(db) |-> IF db[i].id = id THEN value ELSE db[i]]
    ELSE Append(db, value)

\* str(uuid.uuid4()): an identifier not generated before
uuid4 == uuid + 1

\* the service ids a client sends: every stored one, and two that are not
\* stored, one never generated and one that is the id of an incident
Ids == {services_db[i].id : i \in 1..Len(services_db)}
           \cup {0, incidents_db[1].id}

\* the incident ids a client sends: every stored one, and two that are not
\* stored, one never generated and one that is the id of a service
IncidentIds == {incidents_db[i].id : i \in 1..Len(incidents_db)}
                   \cup {0, services_db[1].id}

(***************************************************************************)
(* Responses.                                                              *)
(***************************************************************************)
\* HTTPException(status_code, detail)
HTTPException(status_code, detail) ==
    [code |-> status_code, body |-> [detail |-> detail]]

Ok(body) == [code |-> 200, body |-> body]

(***************************************************************************)
(* startup_event: the seeded store.                                        *)
(***************************************************************************)
\* a startup reading the clock again for the sample incident
Init_TwoReadings ==
    \E now \in 0..MaxTime : \E later \in now..MaxTime :
        /\ services_db = <<
              [id |-> 1, name |-> "Website",
               description |-> "Main company website",
               status |-> "operational", last_updated |-> isoformat(now)],
              [id |-> 2, name |-> "API Service",
               description |-> "REST API endpoints",
               status |-> "operational", last_updated |-> isoformat(now)] >>
        /\ incidents_db = <<
              [id |-> 3, service_id |-> 1, title |-> "High Latency Issues",
               description |-> "Users experiencing slower response times",
               status |-> "resolved", created_at |-> isoformat(later)] >>
        /\ clock = later
        /\ uuid = 3
        /\ handler = "startup"
        /\ resp = Ok(<<>>)
        /\ tasks = <<>>

Init ==
    \E now \in 0..MaxTime :
        LET current_time == isoformat(now) IN
        /\ services_db = <<
              [id |-> 1, name |-> "Website",
               description |-> "Main company website",
               status |-> "operational", last_updated |-> current_time],
              [id |-> 2, name |-> "API Service",
               description |-> "REST API endpoints",
               status |-> "operational", last_updated |-> current_time] >>
        /\ incidents_db = <<
              [id |-> 3, service_id |-> 1, title |-> "High Latency Issues",
               description |-> "Users experiencing slower response times",
               status |-> "resolved", created_at |-> current_time] >>
        /\ clock = now
        /\ uuid = 3
        /\ handler = "startup"
        /\ resp = Ok(<<>>)
        /\ tasks = <<>>

(***************************************************************************)
(* Service endpoints.                                                      *)
(***************************************************************************)
\* GET /services
get_services ==
    /\ handler' = "get_services"
    /\ resp' = Ok(services_db)
    /\ UNCHANGED <<services_db, incidents_db, clock, uuid>>

\* the scan comparing the wrong field of the stored services
NameExists_WrongField(name) ==
    \E i \in 1..Len(services_db) : services_db[i].description = name

\* any(s['name'] == service.name for s in services_db.values())
NameExists(name) ==
    \E i \in 1..Len(services_db) : services_db[i].name = name

\* the record built with a default status in place of the request's
new_service_DefaultStatus(service_id, name, description, status, current_time) ==
    [id |-> service_id, name |-> name, description |-> description,
     status |-> "operational", last_updated |-> current_time]

\* the record create_service builds
new_service(service_id, name, description, status, current_time) ==
    [id |-> service_id, name |-> name, description |-> description,
     status |-> status, last_updated |-> current_time]

\* the handler storing the service as operational while answering with the
\* request's status
create_service_StoresOperational(name, description, status) ==
    /\ handler' = "create_service"
    /\ IF NameExists(name)
       THEN /\ resp' = HTTPException(400, "Service with this name already exists")
            /\ UNCHANGED <<services_db, incidents_db, clock, uuid>>
       ELSE \E now \in clock..MaxTime :
            LET service_id == uuid4
                rec == new_service(service_id, name, description, status,
                                   isoformat(now))
            IN /\ services_db' = Put(services_db, service_id,
                                     [rec EXCEPT !.status = "operational"])
               /\ resp' = Ok(rec)
               /\ uuid' = service_id
               /\ clock' = now
               /\ UNCHANGED incidents_db

\* POST /services
create_service(name, description, status) ==
    /\ handler' = "create_service"
    /\ IF NameExists(name)
       THEN /\ resp' = HTTPException(400, "Service with this name already exists")
            /\ UNCHANGED <<services_db, incidents_db, clock, uuid>>
       ELSE \E now \in clock..MaxTime :
            LET service_id == uuid4
                rec == new_service(service_id, name, description, status,
                                   isoformat(now))
            IN /\ services_db' = Put(services_db, service_id, rec)
               /\ resp' = Ok(rec)
               /\ uuid' = service_id
               /\ clock' = now
               /\ UNCHANGED incidents_db

\* the scan without the `s['id'] != service_id` conjunct
NameConflict_AnyId(service_id, name) ==
    \E i \in 1..Len(services_db) : services_db[i].name = name

\* any(s['name'] == service.name and s['id'] != service_id
\*     for s in services_db.values())
NameConflict(service_id, name) ==
    \E i \in 1..Len(services_db) :
        services_db[i].name = name /\ services_db[i].id # service_id

\* the record update_service builds
updated_service(service_id, name, description, status, current_time) ==
    [id |-> service_id, name |-> name, description |-> description,
     status |-> status, last_updated |-> current_time]

\* the handler without the `service_id not in services_db` test: an upsert
update_service_Upsert(service_id, name, description, status) ==
    /\ handler' = "update_service"
    /\ IF NameConflict(service_id, name)
       THEN /\ resp' = HTTPException(400, "Service with this name already exists")
            /\ UNCHANGED <<services_db, incidents_db, clock, uuid>>
       ELSE \E now \in clock..MaxTime :
            LET rec == updated_service(service_id, name, description, status,
                                       isoformat(now))
            IN /\ resp' = Ok(rec)
               /\ services_db' = Put(services_db, service_id, rec)
               /\ clock' = now
               /\ UNCHANGED <<incidents_db, uuid>>

\* the handler deriving the status from the stored incidents: a service with
\* an open incident stays "degraded"
update_service_OpenIncidentWins(service_id, name, description, status) ==
    /\ handler' = "update_service"
    /\ IF ~Has(services_db, service_id)
       THEN /\ resp' = HTTPException(404, "Service not found")
            /\ UNCHANGED <<services_db, incidents_db, clock, uuid>>
       ELSE IF NameConflict(service_id, name)
       THEN /\ resp' = HTTPException(400, "Service with this name already exists")
            /\ UNCHANGED <<services_db, incidents_db, clock, uuid>>
       ELSE \E now \in clock..MaxTime :
            LET open == \E i \in 1..Len(incidents_db) :
                            /\ incidents_db[i].service_id = service_id
                            /\ incidents_db[i].status \in {"investigating", "identified"}
                rec == updated_service(service_id, name, description,
                                       IF open THEN "degraded" ELSE status,
                                       isoformat(now))
            IN /\ resp' = Ok(rec)
               /\ services_db' = Put(services_db, service_id, rec)
               /\ clock' = now
               /\ UNCHANGED <<incidents_db, uuid>>

\* PUT /services/{service_id}
update_service(service_id, name, description, status) ==
    /\ handler' = "update_service"
    /\ IF ~Has(services_db, service_id)
       THEN /\ resp' = HTTPException(404, "Service not found")
            /\ UNCHANGED <<services_db, incidents_db, clock, uuid>>
       ELSE IF NameConflict(service_id, name)
       THEN /\ resp' = HTTPException(400, "Service with this name already exists")
            /\ UNCHANGED <<services_db, incidents_db, clock, uuid>>
       ELSE \E now \in clock..MaxTime :
            LET rec == updated_service(service_id, name, description, status,
                                       isoformat(now))
            IN /\ resp' = Ok(rec)
               /\ services_db' = Put(services_db, service_id, rec)
               /\ clock' = now
               /\ UNCHANGED <<incidents_db, uuid>>

\* GET /services/{service_id}
get_service(service_id) ==
    /\ handler' = "get_service"
    /\ resp' = IF ~Has(services_db, service_id)
               THEN HTTPException(404, "Service not found")
               ELSE Ok(Lookup(services_db, service_id))
    /\ UNCHANGED <<services_db, incidents_db, clock, uuid>>

(***************************************************************************)
(* Incident endpoints.                                                     *)
(***************************************************************************)
\* the sort without reverse=True
ComesBefore_Ascending(x, y) == StrLess(x.created_at, y.created_at)

\* key=lambda x: x['created_at'], reverse=True: x has to come before y
\* exactly when its key is the greater one
ComesBefore(x, y) == StrLess(y.created_at, x.created_at)

\* an insertion that puts x in front of the elements with an equal key
RECURSIVE InsertStable_TiesFirst(_, _)
InsertStable_TiesFirst(x, out) ==
    IF out = <<>> THEN <<x>>
    ELSE IF ~ComesBefore(Head(out), x) THEN <<x>> \o out
    ELSE <<Head(out)>> \o InsertStable_TiesFirst(x, Tail(out))

\* one more element into a sorted list: x goes in front of the first element
\* it has to come before, so elements with equal keys keep their order
\* (sorted is stable, also with reverse=True)
RECURSIVE InsertStable(_, _)
InsertStable(x, out) ==
    IF out = <<>> THEN <<x>>
    ELSE IF ComesBefore(x, Head(out)) THEN <<x>> \o out
    ELSE <<Head(out)>> \o InsertStable(x, Tail(out))

\* sorted(list(incidents_db.values()), key=..., reverse=True)
RECURSIVE sorted_incidents(_)
sorted_incidents(list) ==
    IF list = <<>> THEN <<>>
    ELSE InsertStable(list[Len(list)],
                      sorted_incidents(SubSeq(list, 1, Len(list) - 1)))

\* GET /incidents
get_incidents ==
    /\ handler' = "get_incidents"
    /\ resp' = Ok(sorted_incidents(incidents_db))
    /\ UNCHANGED <<services_db, incidents_db, clock, uuid>>

\* the record create_incident builds
new_incident(incident_id, service_id, title, description, status, current_time) ==
    [id |-> incident_id, service_id |-> service_id, title |-> title,
     description |-> description, status |-> status,
     created_at |-> current_time]

\* the policy with a plain `else` in place of `elif ... == 'resolved'`
policy_status_Else(incident_status, service_status) ==
    IF incident_status \in {"investigating", "identified"} THEN "degraded"
    ELSE "operational"

\* the service status the incident policy leaves behind
policy_status(incident_status, service_status) ==
    IF incident_status \in {"investigating", "identified"} THEN "degraded"
    ELSE IF incident_status = "resolved" THEN "operational"
    ELSE service_status

\* a policy that recomputes the status from the incidents stored for the
\* service: degraded while one of them is open
apply_policy_Aggregating(db, service_id, incident_status, current_time) ==
    [i \in 1..Len(db) |->
        IF db[i].id = service_id
        THEN [db[i] EXCEPT
                !.status =
                    IF \E k \in 1..Len(incidents_db) :
                          /\ incidents_db[k].service_id = service_id
                          /\ incidents_db[k].status \in {"investigating", "identified"}
                    THEN "degraded"
                    ELSE policy_status(incident_status, @),
                !.last_updated = current_time]
        ELSE db[i]]

\* the policy stamping last_updated inside the two branches only
apply_policy_StampOnChange(db, service_id, incident_status, current_time) ==
    [i \in 1..Len(db) |->
        IF db[i].id = service_id
        THEN [db[i] EXCEPT
                !.status = policy_status(incident_status, @),
                !.last_updated =
                    IF incident_status \in {"investigating", "identified", "resolved"}
                    THEN current_time ELSE @]
        ELSE db[i]]

\* the policy applied to every stored service
apply_policy_AllServices(db, service_id, incident_status, current_time) ==
    [i \in 1..Len(db) |->
        [db[i] EXCEPT !.status = policy_status(incident_status, @),
                      !.last_updated = current_time]]

\* service = services_db[id]; service['status'] = ...;
\* service['last_updated'] = current_time  (the stored dict, mutated in place)
apply_policy(db, service_id, incident_status, current_time) ==
    [i \in 1..Len(db) |->
        IF db[i].id = service_id
        THEN [db[i] EXCEPT !.status = policy_status(incident_status, @),
                           !.last_updated = current_time]
        ELSE db[i]]

\* the handler storing the incident under the key of its service, so that
\* a service holds its latest incident only
create_incident_KeyedByService(service_id, title, description, status) ==
    /\ handler' = "create_incident"
    /\ IF ~Has(services_db, service_id)
       THEN /\ resp' = HTTPException(404, "Service not found")
            /\ UNCHANGED <<services_db, incidents_db, clock, uuid>>
       ELSE \E now \in clock..MaxTime :
            LET incident_id == uuid4
                current_time == isoformat(now)
                rec == new_incident(incident_id, service_id, title,
                                    description, status, current_time)
            IN /\ incidents_db' =
                      IF \E i \in 1..Len(incidents_db) :
                            incidents_db[i].service_id = service_id
                      THEN [i \in 1..Len(incidents_db) |->
                               IF incidents_db[i].service_id = service_id
                               THEN rec ELSE incidents_db[i]]
                      ELSE Append(incidents_db, rec)
               /\ services_db' = apply_policy(services_db, service_id,
                                              status, current_time)
               /\ resp' = Ok(rec)
               /\ uuid' = incident_id
               /\ clock' = now

\* the handler without the `service_id not in services_db` test, the policy
\* finding no service to change
create_incident_NoCheck(service_id, title, description, status) ==
    /\ handler' = "create_incident"
    /\ \E now \in clock..MaxTime :
            LET incident_id == uuid4
                current_time == isoformat(now)
                rec == new_incident(incident_id, service_id, title,
                                    description, status, current_time)
            IN /\ incidents_db' = Put(incidents_db, incident_id, rec)
               /\ services_db' = apply_policy(services_db, service_id,
                                              status, current_time)
               /\ resp' = Ok(rec)
               /\ uuid' = incident_id
               /\ clock' = now

\* POST /incidents
create_incident(service_id, title, description, status) ==
    /\ handler' = "create_incident"
    /\ IF ~Has(services_db, service_id)
       THEN /\ resp' = HTTPException(404, "Service not found")
            /\ UNCHANGED <<services_db, incidents_db, clock, uuid>>
       ELSE \E now \in clock..MaxTime :
            LET incident_id == uuid4
                current_time == isoformat(now)
                rec == new_incident(incident_id, service_id, title,
                                    description, status, current_time)
            IN /\ incidents_db' = Put(incidents_db, incident_id, rec)
               /\ services_db' = apply_policy(services_db, service_id,
                                              status, current_time)
               /\ resp' = Ok(rec)
               /\ uuid' = incident_id
               /\ clock' = now

\* GET /incidents/{incident_id}
get_incident(incident_id) ==
    /\ handler' = "get_incident"
    /\ resp' = IF ~Has(incidents_db, incident_id)
               THEN HTTPException(404, "Incident not found")
               ELSE Ok(Lookup(incidents_db, incident_id))
    /\ UNCHANGED <<services_db, incidents_db, clock, uuid>>

(***************************************************************************)
(* Specifications.  Both run every handler they name as one atomic step    *)
(* and differ in the requests the clients send.                            *)
(***************************************************************************)
\* Spec: the service registry under every service request, with
\* "investigating" incidents opened on any service
RegistryIncidentStatuses == {"investigating"}

\* Spec: the service registry, every request served as it arrives
Next ==
    \/ get_services /\ UNCHANGED tasks
    \/ \E name \in Names, description \in Descriptions, status \in ServiceStatuses :
           create_service(name, description, status) /\ UNCHANGED tasks
    \/ \E service_id \in Ids, name \in Names, description \in Descriptions,
          status \in ServiceStatuses :
           update_service(service_id, name, description, status) /\ UNCHANGED tasks
    \/ \E service_id \in Ids : get_service(service_id) /\ UNCHANGED tasks
    \/ /\ Len(incidents_db) < MaxRegistryIncidents
       /\ \E service_id \in Ids, title \in Titles,
             description \in IncidentDescriptions,
             status \in RegistryIncidentStatuses :
              create_incident(service_id, title, description, status)
       /\ UNCHANGED tasks

Spec == Init /\ [][Next]_vars

\* SpecLog: the incident log under every incident request and every
\* incident status, with the seeded services updated (accepted, or refused,
\* under the name "Website") but none created
LogNames == {"Website"}
LogDescriptions == {None}
LogServiceStatuses == {"maintenance"}

NextLog ==
    \/ \E service_id \in Ids, name \in LogNames, description \in LogDescriptions,
          status \in LogServiceStatuses :
           update_service(service_id, name, description, status) /\ UNCHANGED tasks
    \/ get_incidents /\ UNCHANGED tasks
    \/ /\ Len(incidents_db) < MaxIncidents
       /\ \E service_id \in Ids, title \in Titles,
             description \in IncidentDescriptions, status \in IncidentStatuses :
              create_incident(service_id, title, description, status)
       /\ UNCHANGED tasks
    \/ \E incident_id \in IncidentIds : get_incident(incident_id) /\ UNCHANGED tasks

SpecLog == Init /\ [][NextLog]_vars

(***************************************************************************)
(* SpecAsync: requests that arrive while others wait.  The server runs the *)
(* handlers as coroutines of one event loop: a request that has arrived    *)
(* waits as a task, and the loop runs the waiting tasks in any order.  A   *)
(* task gives the loop back to the others at an `await` only, and no       *)
(* handler has one: a task that runs, runs its whole handler.              *)
(***************************************************************************)
AsyncNames == {"Database", "Website"}
\* the ids Updates are sent for, and the one incidents are opened on
AsyncServiceIds == {1, 2}
AsyncIncidentServiceIds == {1}
AsyncIncidentStatuses == {"investigating", "monitoring"}

\* a request that has arrived: the handler to call and its arguments, the
\* position of the handler, and once it returned its response and its
\* place among the returns
Task(op, service_id, name, description, status, title) ==
    [op |-> op, service_id |-> service_id, name |-> name,
     description |-> description, status |-> status, title |-> title,
     pc |-> "pending", resp |-> None, order |-> 0]

\* the tasks whose handler returned
Done == {j \in 1..Len(tasks) : tasks[j].pc = "done"}

\* task i after its handler returned the response of this step
Completed(i) ==
    [tasks EXCEPT ![i].pc = "done", ![i].resp = resp',
                  ![i].order = Cardinality(Done) + 1]

\* @app.post("/services"): the request waits as a task
accept_create_service(name, description, status) ==
    /\ Len(tasks) < MaxTasks
    /\ tasks' = Append(tasks, Task("create_service", 0, name, description,
                                   status, None))
    /\ UNCHANGED <<services_db, incidents_db, clock, uuid, handler, resp>>

\* @app.put("/services/{service_id}"): the request waits as a task
accept_update_service(service_id, name, description, status) ==
    /\ Len(tasks) < MaxTasks
    /\ tasks' = Append(tasks, Task("update_service", service_id, name,
                                   description, status, None))
    /\ UNCHANGED <<services_db, incidents_db, clock, uuid, handler, resp>>

\* @app.post("/incidents"): the request waits as a task
accept_create_incident(service_id, title, description, status) ==
    /\ Len(tasks) < MaxTasks
    /\ tasks' = Append(tasks, Task("create_incident", service_id, None,
                                   description, status, title))
    /\ UNCHANGED <<services_db, incidents_db, clock, uuid, handler, resp>>

\* the handler with an `await` between the name scan and the write: the
\* task gives way to the others after a scan that found no such name
run_create_service_AwaitAfterScan(i) ==
    /\ tasks[i].op = "create_service"
    /\ \/ /\ tasks[i].pc = "pending"
          /\ IF NameExists(tasks[i].name)
             THEN /\ handler' = "create_service"
                  /\ resp' = HTTPException(400, "Service with this name already exists")
                  /\ tasks' = Completed(i)
                  /\ UNCHANGED <<services_db, incidents_db, clock, uuid>>
             ELSE /\ tasks' = [tasks EXCEPT ![i].pc = "scanned"]
                  /\ UNCHANGED <<services_db, incidents_db, clock, uuid,
                                 handler, resp>>
       \/ /\ tasks[i].pc = "scanned"
          /\ handler' = "create_service"
          /\ \E now \in clock..MaxTime :
                LET service_id == uuid4
                    rec == new_service(service_id, tasks[i].name,
                                       tasks[i].description, tasks[i].status,
                                       isoformat(now))
                IN /\ services_db' = Put(services_db, service_id, rec)
                   /\ resp' = Ok(rec)
                   /\ uuid' = service_id
                   /\ clock' = now
                   /\ UNCHANGED incidents_db
          /\ tasks' = Completed(i)

\* the loop runs a waiting create_service: lines 58-78 without a suspension
run_create_service(i) ==
    /\ tasks[i].op = "create_service"
    /\ tasks[i].pc = "pending"
    /\ create_service(tasks[i].name, tasks[i].description, tasks[i].status)
    /\ tasks' = Completed(i)

\* the loop runs a waiting update_service: lines 81-104 without a suspension
run_update_service(i) ==
    /\ tasks[i].op = "update_service"
    /\ tasks[i].pc = "pending"
    /\ update_service(tasks[i].service_id, tasks[i].name, tasks[i].description,
                      tasks[i].status)
    /\ tasks' = Completed(i)

\* the handler with an `await` between `service = services_db[...]` and the
\* assignments to `service`: they go to the dictionary fetched before the
\* suspension, which is no longer the stored one once an update replaced it
run_create_incident_AwaitAfterFetch(i) ==
    /\ tasks[i].op = "create_incident"
    /\ \/ /\ tasks[i].pc = "pending"
          /\ IF ~Has(services_db, tasks[i].service_id)
             THEN /\ handler' = "create_incident"
                  /\ resp' = HTTPException(404, "Service not found")
                  /\ tasks' = Completed(i)
                  /\ UNCHANGED <<services_db, incidents_db, clock, uuid>>
             ELSE \E now \in clock..MaxTime :
                  LET incident_id == uuid4
                      rec == new_incident(incident_id, tasks[i].service_id,
                                          tasks[i].title, tasks[i].description,
                                          tasks[i].status, isoformat(now))
                  IN /\ incidents_db' = Put(incidents_db, incident_id, rec)
                     /\ uuid' = incident_id
                     /\ clock' = now
                     /\ tasks' = [tasks EXCEPT ![i].pc = "fetched",
                                               ![i].resp = Ok(rec),
                                               ![i].order = Cardinality(Done)]
                     /\ UNCHANGED <<services_db, handler, resp>>
       \/ /\ tasks[i].pc = "fetched"
          /\ handler' = "create_incident"
          /\ resp' = tasks[i].resp
          /\ services_db' =
                IF \E j \in Done :
                      /\ tasks[j].op = "update_service"
                      /\ tasks[j].service_id = tasks[i].service_id
                      /\ tasks[j].resp.code = 200
                      /\ tasks[j].order > tasks[i].order
                THEN services_db
                ELSE apply_policy(services_db, tasks[i].service_id,
                                  tasks[i].status, tasks[i].resp.body.created_at)
          /\ tasks' = Completed(i)
          /\ UNCHANGED <<incidents_db, clock, uuid>>

\* the loop runs a waiting create_incident: lines 122-152 without a suspension
run_create_incident(i) ==
    /\ tasks[i].op = "create_incident"
    /\ tasks[i].pc = "pending"
    /\ create_incident(tasks[i].service_id, tasks[i].title, tasks[i].description,
                       tasks[i].status)
    /\ tasks' = Completed(i)

NextAsync ==
    \/ \E name \in AsyncNames, description \in Descriptions,
          status \in ServiceStatuses :
           accept_create_service(name, description, status)
    \/ \E service_id \in AsyncServiceIds, name \in AsyncNames,
          description \in Descriptions, status \in ServiceStatuses :
           accept_update_service(service_id, name, description, status)
    \/ \E service_id \in AsyncIncidentServiceIds, title \in Titles,
          description \in IncidentDescriptions,
          status \in AsyncIncidentStatuses :
           accept_create_incident(service_id, title, description, status)
    \/ \E i \in 1..Len(tasks) : run_create_service(i)
    \/ \E i \in 1..Len(tasks) : run_update_service(i)
    \/ \E i \in 1..Len(tasks) : run_create_incident(i)

SpecAsync == Init /\ [][NextAsync]_vars

(***************************************************************************)
(* Vocabulary of the properties.                                           *)
(***************************************************************************)
Range(seq) == {seq[i] : i \in 1..Len(seq)}

\* the stored records under an id, and the one record when there is one
Stored(db, id) == {r \in Range(db) : r.id = id}
The(db, id) == CHOOSE r \in Range(db) : r.id = id

\* the instant a timestamp string denotes, in clock ticks
TicksOf(ts) == IF Len(ts) = 1 THEN 2 * ts[1] ELSE 2 * ts[1] + ts[2]

StoreUnchanged == UNCHANGED <<services_db, incidents_db>>

(***************************************************************************)
(* C1: in every reachable state, whatever service Creates, service Updates *)
(* and incident Creates (accepted or rejected) led to it, no two distinct  *)
(* stored services have the same name.                                     *)
(***************************************************************************)
C1_UniqueNames ==
    \A i, j \in 1..Len(services_db) :
        i # j => services_db[i].name # services_db[j].name

\* three services stored, an incident created, and a rename just refused
C1_Witness ==
    /\ Len(services_db) = 3
    /\ Len(incidents_db) = 2
    /\ handler = "update_service"
    /\ resp.code = 400

(***************************************************************************)
(* C2: an incident Create on a stored service leaves that service with the *)
(* status the fixed mapping gives: "degraded" for an "investigating" or    *)
(* "identified" incident, "operational" for a "resolved" one, and the      *)
(* status it had before the call for any other incident status.            *)
(***************************************************************************)
C2_PolicyMapping ==
    [][\A service_id \in Ids, title \in Titles,
          description \in IncidentDescriptions, status \in IncidentStatuses :
          (/\ handler' = "create_incident"
           /\ create_incident(service_id, title, description, status)
           /\ Stored(services_db, service_id) # {})
          => LET before == The(services_db, service_id).status
                 after == The(services_db', service_id).status
             IN /\ status \in {"investigating", "identified"} => after = "degraded"
                /\ status = "resolved" => after = "operational"
                /\ status \notin {"investigating", "identified", "resolved"}
                   => after = before]_vars

\* an incident outside the policy was created on a service in maintenance
C2_Witness ==
    /\ handler = "create_incident"
    /\ resp.code = 200
    /\ resp.body.status = "monitoring"
    /\ The(services_db, resp.body.service_id).status = "maintenance"

(***************************************************************************)
(* C3: an incident Create whose service_id is not the id of a stored       *)
(* service is answered 404 and changes nothing: no incident is added and   *)
(* no service is modified.                                                 *)
(***************************************************************************)
C3_UnknownServiceRejected ==
    [][\A service_id \in Ids, title \in Titles,
          description \in IncidentDescriptions, status \in IncidentStatuses :
          (/\ handler' = "create_incident"
           /\ create_incident(service_id, title, description, status)
           /\ Stored(services_db, service_id) = {})
          => /\ resp'.code = 404
             /\ StoreUnchanged]_vars

\* an incident Create was refused with incidents and services stored
C3_Witness ==
    /\ handler = "create_incident"
    /\ resp.code = 404
    /\ Len(incidents_db) >= 2

(***************************************************************************)
(* C4: a service Create with the name of a stored service is answered 400  *)
(* and leaves both collections unchanged; with a name not in use it is     *)
(* answered 200 and adds exactly one service, with an id no stored record  *)
(* has and the request's name, description and status, while every service *)
(* stored before stays as it was.                                          *)
(***************************************************************************)
C4_CreateService ==
    [][\A name \in Names, description \in Descriptions, status \in ServiceStatuses :
          (/\ handler' = "create_service"
           /\ create_service(name, description, status))
          => IF \E r \in Range(services_db) : r.name = name
             THEN /\ resp'.code = 400
                  /\ StoreUnchanged
             ELSE /\ resp'.code = 200
                  /\ Len(services_db') = Len(services_db) + 1
                  /\ SubSeq(services_db', 1, Len(services_db)) = services_db
                  /\ LET new == services_db'[Len(services_db')]
                     IN /\ Stored(services_db, new.id) = {}
                        /\ Stored(incidents_db, new.id) = {}
                        /\ new.name = name
                        /\ new.description = description
                        /\ new.status = status]_vars

\* a third service was created next to the two seeded ones
C4_Witness ==
    /\ handler = "create_service"
    /\ resp.code = 200
    /\ Len(services_db) = 3
    /\ Stored(services_db, resp.body.id) # {}

(***************************************************************************)
(* C5: a service Update on an id that is not stored is answered 404, also  *)
(* when the requested name is the name of a stored service, and leaves     *)
(* services and incidents unchanged: no service appears under that id.     *)
(***************************************************************************)
C5_UpdateUnknownId ==
    [][handler' = "update_service"
       => \A service_id \in Ids :
             (\A i \in 1..Len(services_db) : services_db[i].id # service_id)
             => \/ /\ resp'.code = 404
                   /\ StoreUnchanged
                   /\ Stored(services_db', service_id) = {}
                \/ \A name \in Names, description \in Descriptions,
                      status \in ServiceStatuses :
                      ~update_service(service_id, name, description, status)]_vars

\* an Update was answered 404 while every name a request can carry is the
\* name of a stored service
C5_Witness ==
    /\ handler = "update_service"
    /\ resp.code = 404
    /\ \A name \in Names : \E r \in Range(services_db) : r.name = name

(***************************************************************************)
(* C6: a service Update on a stored id is answered 400, with the store     *)
(* unchanged, exactly when a service with a different id has the requested *)
(* name; otherwise (the service's own current name included) it succeeds.  *)
(***************************************************************************)
C6_UpdateConflict ==
    [][handler' = "update_service"
       => \A i \in 1..Len(services_db) : \A name \in Names :
             \/ /\ IF \E k \in 1..Len(services_db) :
                         /\ services_db[k].id # services_db[i].id
                         /\ services_db[k].name = name
                   THEN resp'.code = 400 /\ StoreUnchanged
                   ELSE resp'.code = 200
                /\ services_db[i].name = name => resp'.code = 200
             \/ \A description \in Descriptions, status \in ServiceStatuses :
                   ~update_service(services_db[i].id, name, description, status)]_vars

\* an Update was answered 200 while every other name is taken: it kept the
\* service's own name
C6_Witness ==
    /\ handler = "update_service"
    /\ resp.code = 200
    /\ Len(services_db) = Cardinality(Names)
    /\ The(services_db, resp.body.id) = resp.body

(***************************************************************************)
(* C7: a successful service Update leaves the addressed service with the   *)
(* request's name, description and status, the current time as             *)
(* last_updated and its id, and changes no other service and no incident.  *)
(***************************************************************************)
C7_UpdateOverwrites ==
    [][(handler' = "update_service" /\ resp'.code = 200)
       => \A service_id \in Ids, name \in Names, description \in Descriptions,
             status \in ServiceStatuses :
             (/\ Stored(services_db, service_id) # {}
              /\ update_service(service_id, name, description, status))
             => /\ Len(services_db') = Len(services_db)
                /\ \A i \in 1..Len(services_db) :
                      services_db'[i] =
                          IF services_db[i].id = service_id
                          THEN [id |-> service_id, name |-> name,
                                description |-> description, status |-> status,
                                last_updated |-> isoformat(clock')]
                          ELSE services_db[i]
                /\ incidents_db' = incidents_db]_vars

\* an Update set "maintenance" on a service an "investigating" incident had
\* degraded
C7_Witness ==
    /\ handler = "update_service"
    /\ resp.code = 200
    /\ resp.body.status = "maintenance"
    /\ The(services_db, resp.body.id) = resp.body
    /\ \E r \in Range(incidents_db) :
          r.service_id = resp.body.id /\ r.status = "investigating"

(***************************************************************************)
(* C8: the Incident List response holds every stored incident exactly once *)
(* and, from first to last, the instants of created_at never increase.     *)
(***************************************************************************)
C8_ListSortedDescending ==
    handler = "get_incidents"
    => /\ resp.code = 200
       /\ Len(resp.body) = Len(incidents_db)
       /\ \A r \in Range(incidents_db) :
             Cardinality({i \in 1..Len(resp.body) : resp.body[i] = r}) = 1
       /\ \A i, j \in 1..Len(resp.body) :
             i < j => TicksOf(resp.body[i].created_at)
                          >= TicksOf(resp.body[j].created_at)

\* a list of three incidents created at two different instants
C8_Witness ==
    /\ handler = "get_incidents"
    /\ Len(resp.body) = 3
    /\ resp.body[1].created_at # resp.body[3].created_at

(***************************************************************************)
(* C9: the policy does not aggregate.  When a "resolved" incident is       *)
(* created on a service for which an "identified" incident created earlier *)
(* is stored, the service is "operational" and the earlier incident is     *)
(* still stored as "identified"; and a step changes a service's status     *)
(* only to what an Update asks for or to what the policy maps the one new  *)
(* incident to, whatever the incidents stored for the service.             *)
(***************************************************************************)
C9_NonAggregating ==
    [][/\ \A service_id \in Ids, title \in Titles,
             description \in IncidentDescriptions :
             \A I1 \in Range(incidents_db) :
                (/\ handler' = "create_incident"
                 /\ I1.service_id = service_id
                 /\ I1.status = "identified"
                 /\ Stored(services_db, service_id) # {}
                 /\ create_incident(service_id, title, description, "resolved"))
                => /\ The(services_db', service_id).status = "operational"
                   /\ I1 \in Range(incidents_db')
       /\ \A i \in 1..Len(services_db) :
             services_db'[i].status # services_db[i].status
             => \/ /\ handler' = "update_service"
                   /\ services_db'[i].status = resp'.body.status
                \/ /\ handler' = "create_incident"
                   /\ resp'.body.service_id = services_db[i].id
                   /\ resp'.body.status \in {"investigating", "identified", "resolved"}]_vars

\* a "resolved" incident was created on a service that has an older
\* "identified" incident, and the service is operational
C9_Witness ==
    /\ handler = "create_incident"
    /\ resp.code = 200
    /\ resp.body.status = "resolved"
    /\ The(services_db, resp.body.service_id).status = "operational"
    /\ \E I1 \in Range(incidents_db) :
          /\ I1.service_id = resp.body.service_id
          /\ I1.status = "identified"
          /\ I1.id < resp.body.id

(***************************************************************************)
(* C10: a Get on the id a successful service Create has just returned is   *)
(* answered with a record equal, field for field, to the one the Create    *)
(* returned.                                                               *)
(***************************************************************************)
C10_CreateThenGet ==
    [][(/\ handler = "create_service"
        /\ resp.code = 200
        /\ get_service(resp.body.id))
       => /\ resp'.code = 200
          /\ \A f \in {"id", "name", "description", "status", "last_updated"} :
                resp'.body[f] = resp.body[f]
          /\ DOMAIN resp'.body = DOMAIN resp.body]_vars

\* the service created last was fetched and is stored as it was returned
C10_Witness ==
    /\ handler = "get_service"
    /\ resp.code = 200
    /\ resp.body.id = uuid
    /\ resp.body.id > 3
    /\ Len(services_db) = 3

(***************************************************************************)
(* Vocabulary of the concurrency properties.                               *)
(***************************************************************************)
\* the tasks that were answered 200, and the last of a set of them to return
Accepted == {j \in Done : tasks[j].resp.code = 200}
Last(S) == CHOOSE j \in S : \A k \in S : tasks[k].order <= tasks[j].order

(***************************************************************************)
(* C11: with service Creates and Updates waiting together and run in any   *)
(* order, the name scan and the write of each request are one step of the  *)
(* event loop: no interleaving of requests that ask for the same name ends *)
(* with two services holding that name.                                    *)
(***************************************************************************)
C11_NoInterleavingDuplicates ==
    \A name \in AsyncNames :
        Cardinality({k \in 1..Len(services_db) : services_db[k].name = name}) <= 1

\* a Create and an Update of another service asked for "Database" while
\* both waited; the one that arrived last ran first and was accepted, the
\* other was refused
C11_Witness ==
    /\ Len(tasks) >= 2
    /\ tasks[1].op = "create_service"
    /\ tasks[2].op = "update_service"
    /\ tasks[1].name = "Database"
    /\ tasks[2].name = "Database"
    /\ tasks[1].pc = "done"
    /\ tasks[2].pc = "done"
    /\ tasks[2].order < tasks[1].order
    /\ tasks[2].resp.code = 200
    /\ tasks[1].resp.code = 400
    /\ Cardinality({k \in 1..Len(services_db) : services_db[k].name = "Database"}) = 1

(***************************************************************************)
(* C12: with an incident Create and a service Update on one service        *)
(* waiting together, the service ends as one of the two serial orders      *)
(* leaves it.  When the Update returned last, the stored record is the one *)
(* the Update answered.  When the incident Create returned last, the       *)
(* record has the Update's name and description, the created_at of the     *)
(* incident as last_updated, and the policy's status, or the Update's      *)
(* status if no incident since the Update is under the policy.  The        *)
(* incident is stored in both orders.                                      *)
(***************************************************************************)
C12_SerialOutcome ==
    \A id \in AsyncServiceIds :
        LET U == {j \in Accepted : /\ tasks[j].op = "update_service"
                                   /\ tasks[j].service_id = id}
            I == {j \in Accepted : /\ tasks[j].op = "create_incident"
                                   /\ tasks[j].service_id = id}
        IN (U # {} /\ I # {})
           => LET u == Last(U)
                  c == Last(I)
                  P == {j \in I : /\ tasks[j].order > tasks[u].order
                                  /\ tasks[j].status \in
                                        {"investigating", "identified", "resolved"}}
                  service == The(services_db, id)
              IN /\ \A j \in I : tasks[j].resp.body \in Range(incidents_db)
                 /\ IF tasks[u].order > tasks[c].order
                    THEN service = tasks[u].resp.body
                    ELSE /\ service.id = id
                         /\ service.name = tasks[u].resp.body.name
                         /\ service.description = tasks[u].resp.body.description
                         /\ service.last_updated = tasks[c].resp.body.created_at
                         /\ service.status =
                               IF P = {} THEN tasks[u].resp.body.status
                               ELSE policy_status(tasks[Last(P)].status,
                                                  tasks[u].resp.body.status)

\* an "investigating" incident arrived first and waited, an Update of its
\* service to "maintenance" under a new name arrived and ran, then the
\* incident ran: the service is "degraded" under the new name
C12_Witness ==
    /\ Len(tasks) >= 2
    /\ tasks[1].op = "create_incident"
    /\ tasks[2].op = "update_service"
    /\ tasks[1].service_id = tasks[2].service_id
    /\ tasks[1].pc = "done"
    /\ tasks[2].pc = "done"
    /\ tasks[1].resp.code = 200
    /\ tasks[2].resp.code = 200
    /\ tasks[2].order < tasks[1].order
    /\ tasks[1].status = "investigating"
    /\ The(services_db, tasks[1].service_id).status = "degraded"
    /\ The(services_db, tasks[1].service_id).name = "Database"
    /\ The(services_db, tasks[1].service_id).last_updated
           = tasks[1].resp.body.created_at

(***************************************************************************)
(* C13: every successful incident Create leaves the referenced service     *)
(* with last_updated equal to the created_at of the new incident, also     *)
(* when the incident status is outside the policy and the service status   *)
(* stays.                                                                  *)
(***************************************************************************)
C13_StampedWithCreatedAt ==
    [][handler' = "create_incident"
       => \A service_id \in Ids, title \in Titles,
             description \in IncidentDescriptions, status \in IncidentStatuses :
             (/\ Stored(services_db, service_id) # {}
              /\ create_incident(service_id, title, description, status))
             => /\ Len(incidents_db') = Len(incidents_db) + 1
                /\ The(services_db', service_id).last_updated
                       = incidents_db'[Len(incidents_db')].created_at]_vars

\* an incident outside the policy was created later than the last stamp of
\* its service, whose status stayed "maintenance"
C13_Witness ==
    /\ handler = "create_incident"
    /\ resp.code = 200
    /\ resp.body.status = "monitoring"
    /\ The(services_db, resp.body.service_id).status = "maintenance"
    /\ The(services_db, resp.body.service_id).last_updated = resp.body.created_at
    /\ TicksOf(resp.body.created_at) > 0

(***************************************************************************)
(* C14: an "investigating" incident created on an "operational" service    *)
(* leaves the service "degraded" and its last_updated strictly later than  *)
(* it was before the call.                                                 *)
(***************************************************************************)
C14_StrictlyLater ==
    [][handler' = "create_incident"
       => \A service_id \in Ids, title \in Titles,
             description \in IncidentDescriptions :
             (/\ Stored(services_db, service_id) # {}
              /\ The(services_db, service_id).status = "operational"
              /\ create_incident(service_id, title, description, "investigating"))
             => /\ The(services_db', service_id).status = "degraded"
                /\ TicksOf(The(services_db', service_id).last_updated)
                       > TicksOf(The(services_db, service_id).last_updated)]_vars

(***************************************************************************)
(* C17: a successful incident Create changes, among the services, only the *)
(* status and last_updated of the referenced one: its id, name and         *)
(* description, every other service and the set of stored services stay.   *)
(***************************************************************************)
C17_OnlyReferencedService ==
    [][(handler' = "create_incident" /\ resp'.code = 200)
       => \A service_id \in Ids, title \in Titles,
             description \in IncidentDescriptions, status \in IncidentStatuses :
             create_incident(service_id, title, description, status)
             => /\ Len(services_db') = Len(services_db)
                /\ \A i \in 1..Len(services_db) :
                      IF services_db[i].id = service_id
                      THEN /\ services_db'[i].id = services_db[i].id
                           /\ services_db'[i].name = services_db[i].name
                           /\ services_db'[i].description = services_db[i].description
                      ELSE services_db'[i] = services_db[i]]_vars

\* an incident degraded its service, at an instant later than the stamp of
\* the other service
C17_Witness ==
    /\ handler = "create_incident"
    /\ resp.code = 200
    /\ The(services_db, resp.body.service_id).status = "degraded"
    /\ \E r \in Range(services_db) :
          /\ r.id # resp.body.service_id
          /\ r.status # "degraded"
          /\ r.last_updated # resp.body.created_at

(***************************************************************************)
(* C15: the start state holds exactly two services, "Website" and          *)
(* "API Service", both "operational", and exactly one incident, "resolved" *)
(* and referencing the id of "Website"; the incident's created_at and the  *)
(* last_updated of both services are one and the same startup timestamp.   *)
(***************************************************************************)
C15_SeededStore ==
    handler = "startup"
    => /\ Len(services_db) = 2
       /\ services_db[1].name = "Website"
       /\ services_db[2].name = "API Service"
       /\ services_db[1].id # services_db[2].id
       /\ \A i \in 1..2 : services_db[i].status = "operational"
       /\ Len(incidents_db) = 1
       /\ incidents_db[1].status = "resolved"
       /\ incidents_db[1].service_id = services_db[1].id
       /\ \A i \in 1..2 :
             services_db[i].last_updated = incidents_db[1].created_at

\* the store right after a startup at the latest instant of the clock
C15_Witness ==
    /\ handler = "startup"
    /\ clock = MaxTime
    /\ incidents_db[1].created_at = isoformat(clock)
    /\ Cardinality(Range(services_db)) = 2

(***************************************************************************)
(* C16: a stored incident is never modified and never removed, whatever    *)
(* service Creates, service Updates and further incident Creates follow.   *)
(***************************************************************************)
C16_IncidentsImmutable ==
    [][/\ Len(incidents_db') >= Len(incidents_db)
       /\ \A i \in 1..Len(incidents_db) : incidents_db'[i] = incidents_db[i]]_vars

\* the seeded incident is still stored as it was, after a second incident on
\* its service and an update of that service
C16_Witness ==
    /\ Len(incidents_db) = 2
    /\ incidents_db[1].status = "resolved"
    /\ incidents_db[2].service_id = incidents_db[1].service_id
    /\ The(services_db, incidents_db[1].service_id).status = "maintenance"
    /\ Len(services_db) = 3

(***************************************************************************)
(* C18: in every reachable state the service_id of every stored incident   *)
(* is the id of a stored service.                                          *)
(***************************************************************************)
C18_ReferentialIntegrity ==
    {incidents_db[i].service_id : i \in 1..Len(incidents_db)}
        \subseteq {services_db[k].id : k \in 1..Len(services_db)}

\* an incident references a service created after startup, which was
\* updated since under its id
C18_Witness ==
    /\ handler = "update_service"
    /\ resp.code = 200
    /\ \E r \in Range(incidents_db) :
          /\ r.service_id > incidents_db[1].id
          /\ r.service_id = resp.body.id
          /\ Stored(services_db, r.service_id) # {}

(***************************************************************************)
(* C19: the Incident List shows incidents with the same created_at in      *)
(* insertion order, the one created earlier first.                         *)
(***************************************************************************)
C19_TiesInInsertionOrder ==
    handler = "get_incidents"
    => \A i, j \in 1..Len(resp.body) :
          (i < j /\ resp.body[i].created_at = resp.body[j].created_at)
          => \E k, l \in 1..Len(incidents_db) :
                /\ k < l
                /\ incidents_db[k] = resp.body[i]
                /\ incidents_db[l] = resp.body[j]

\* a list of three with a later incident in front of two of one instant
C19_Witness ==
    /\ handler = "get_incidents"
    /\ Len(resp.body) = 3
    /\ resp.body[2].created_at = resp.body[3].created_at
    /\ resp.body[1].created_at # resp.body[2].created_at
    /\ resp.body[2].id < resp.body[3].id

(***************************************************************************)
(* C20: the status of a service is the one the most recent status-setting  *)
(* operation wrote: a step that is a successful Update of the service      *)
(* leaves the Update's status, also while an "investigating" or            *)
(* "identified" incident on it is stored; a successful incident Create     *)
(* with "investigating", "identified" or "resolved" leaves the policy's    *)
(* status; every other step leaves the status of the service as it was.    *)
(***************************************************************************)
C20_LastWriterWins ==
    [][\A i \in 1..Len(services_db) :
          LET id == services_db[i].id
              updates ==
                  IF handler' = "update_service" /\ resp'.code = 200
                  THEN {status \in LogServiceStatuses :
                          \E name \in LogNames, description \in LogDescriptions :
                             update_service(id, name, description, status)}
                  ELSE {}
              policies ==
                  IF handler' = "create_incident" /\ resp'.code = 200
                  THEN {IF status = "resolved" THEN "operational" ELSE "degraded" :
                          status \in {st \in {"investigating", "identified", "resolved"} :
                             \E title \in Titles,
                                description \in IncidentDescriptions :
                                create_incident(id, title, description, st)}}
                  ELSE {}
              written == updates \cup policies
          IN /\ Len(services_db') = Len(services_db)
             /\ services_db'[i].id = id
             /\ IF written = {}
                THEN services_db'[i].status = services_db[i].status
                ELSE written = {services_db'[i].status}]_vars

\* an update to "maintenance" was accepted on a service whose latest
\* incident, the last one stored, is "identified"
C20_Witness ==
    /\ handler = "update_service"
    /\ resp.code = 200
    /\ The(services_db, resp.body.id).status = "maintenance"
    /\ incidents_db[Len(incidents_db)].service_id = resp.body.id
    /\ incidents_db[Len(incidents_db)].status = "identified"
    /\ Len(incidents_db) = 3

====
